---- MODULE Spec2Model ----
(***************************************************************************)
(* featureio: the indexed FASTA random-access layer (featureio/seq.py)     *)
(* and the Gene feature record with its interval geometry                  *)
(* (featureio/gene.py).                                                    *)
(*                                                                         *)
(* Text is a sequence of one-character strings; file positions are         *)
(* 0-based as in Python, so the character at position p of text t is       *)
(* t[p + 1].                                                               *)
(***************************************************************************)
EXTENDS Integers, Sequences, FiniteSets, TLC

VARIABLES
    disk,        \* path -> the sequence file and its .fai index on disk
    indexed,     \* outcome of the last IndexedFasta(filename) call
    collection,  \* outcome of the last IndexedFastaCollection(files) call
    result,      \* the last lookup / parse call and its outcome
    gene,        \* slot -> Gene record (or NoGene)
    verdict,     \* outcome of the last Gene comparison call
    written,     \* the records written to file f1, in order
    parsed,      \* the outcomes of the parse calls on the reopened file
    calls,       \* thread -> frame of its get_sequence call
    handles      \* handle id -> open file object (open flag, cursor)

vars ==
    <<disk, indexed, collection, result, gene, verdict, written, parsed,
      calls, handles>>

(***************************************************************************)
(* Bounds of the model.                                                    *)
(***************************************************************************)
MaxRecs == 2      \* FASTA records per generated file
MaxBases == 2     \* sequence characters per FASTA record
MaxText == 3      \* characters of a free text handed to the parser
MaxFiles == 2     \* length of the file list of a collection
MaxBlocks == 2    \* blocks of a Gene
MaxCoord == 4     \* largest CDS coordinate
MaxSeqLen == 2    \* characters of a string handed to reverse_complement

(***************************************************************************)
(* Text helpers (Python str / file semantics).                             *)
(***************************************************************************)
WhiteSpace == {" ", "\n", "\t"}

isspace(c) == c \in WhiteSpace

\* file.seek(pos); file.read(1): one character, or "" at end of file
read1(file, pos) ==
    IF pos >= 0 /\ pos < Len(file) THEN file[pos + 1] ELSE ""

\* text[from:] for a 0-based position
DropFirst(text, n) ==
    IF n >= Len(text) THEN <<>> ELSE SubSeq(text, n + 1, Len(text))

RECURSIVE lstrip(_)
lstrip(s) ==
    IF s = <<>> THEN <<>>
    ELSE IF isspace(Head(s)) THEN lstrip(Tail(s)) ELSE s

RECURSIVE rstrip(_)
rstrip(s) ==
    IF s = <<>> THEN <<>>
    ELSE IF isspace(s[Len(s)]) THEN rstrip(SubSeq(s, 1, Len(s) - 1)) ELSE s

strip(s) == rstrip(lstrip(s))

\* number of leading non-whitespace characters
RECURSIVE TokenLen(_)
TokenLen(s) ==
    IF s = <<>> THEN 0
    ELSE IF isspace(Head(s)) THEN 0 ELSE 1 + TokenLen(Tail(s))

\* str.split(maxsplit=1): at most two fields, split at the first
\* whitespace run; the second field keeps its inner whitespace
split_maxsplit1(s) ==
    LET body == lstrip(s)
        n == TokenLen(body)
        rest == lstrip(DropFirst(body, n))
    IN  IF body = <<>> THEN <<>>
        ELSE IF rest = <<>> THEN <<SubSeq(body, 1, n)>>
        ELSE <<SubSeq(body, 1, n), rest>>

RECURSIVE Flatten(_)
Flatten(ss) == IF ss = <<>> THEN <<>> ELSE Head(ss) \o Flatten(Tail(ss))

RECURSIVE SeqSum(_)
SeqSum(s) == IF s = <<>> THEN 0 ELSE Head(s) + SeqSum(Tail(s))

\* all sequences over S of length 0..n
RECURSIVE SeqsUpTo(_, _)
SeqsUpTo(S, n) ==
    IF n = 0 THEN {<<>>}
    ELSE LET shorter == SeqsUpTo(S, n - 1)
         IN  shorter \cup {Append(s, x) : s \in shorter, x \in S}

(***************************************************************************)
(* Seq and parse_fasta_record (seq.py 7-69).                               *)
(***************************************************************************)
\* a call outcome: kind is "Seq" or the name of the raised exception;
\* description is <<>> for None and <<text>> otherwise
Outcome(kind, name, sequence, description, pos, opened) ==
    [kind |-> kind, name |-> name, sequence |-> sequence,
     description |-> description, pos |-> pos, opened |-> opened]

Raised(kind, opened) == Outcome(kind, <<>>, <<>>, <<>>, -1, opened)

\* bug variant: end of file ends the header search like a '>' does
RECURSIVE find_header_eof_breaks(_, _)
find_header_eof_breaks(file, pos) ==
    IF read1(file, pos) = "" THEN pos
    ELSE IF read1(file, pos) = ">" THEN pos + 1
    ELSE find_header_eof_breaks(file, pos + 1)

\* lines 42-47: read up to and including the next '>'; -1 at end of file
RECURSIVE find_header(_, _)
find_header(file, pos) ==
    IF read1(file, pos) = "" THEN -1
    ELSE IF read1(file, pos) = ">" THEN pos + 1
    ELSE find_header(file, pos + 1)

\* file.readline(): the position after the line's newline (or end of file)
RECURSIVE readline_end(_, _)
readline_end(file, pos) ==
    IF read1(file, pos) = "" THEN pos
    ELSE IF read1(file, pos) = "\n" THEN pos + 1
    ELSE readline_end(file, pos + 1)

\* lines 52-65: the sequence loop; whitespace skipped, a '>' is appended
\* and ends the loop, end of file ends it with end_of_file set
RECURSIVE read_sequence(_, _, _)
read_sequence(file, pos, acc) ==
    LET c == read1(file, pos)
    IN  IF c = "" THEN [sequence |-> acc, pos |-> pos, end_of_file |-> TRUE]
        ELSE IF isspace(c) THEN read_sequence(file, pos + 1, acc)
        ELSE IF c = ">"
             THEN [sequence |-> Append(acc, c), pos |-> pos + 1,
                   end_of_file |-> FALSE]
        ELSE read_sequence(file, pos + 1, Append(acc, c))

parse_fasta_record(file, pos) ==
    LET h == find_header(file, pos)
    IN  IF h = -1 THEN Raised("StopIteration", 0)
        ELSE
        LET e == readline_end(file, h)
            header == IF e > h THEN SubSeq(file, h + 1, e) ELSE <<>>
            fields == split_maxsplit1(strip(header))
        IN  IF fields = <<>> THEN Raised("IndexError", 0)
            ELSE
            LET body == read_sequence(file, e, <<>>)
                sequence == IF body.end_of_file THEN body.sequence
                            ELSE SubSeq(body.sequence, 1,
                                        Len(body.sequence) - 1)
                cursor == IF body.end_of_file THEN body.pos
                          ELSE body.pos - 1
            IN  Outcome("Seq", fields[1], sequence, Tail(fields), cursor, 0)

(***************************************************************************)
(* fasta_string and write_fasta_record (seq.py 72-93).                     *)
(***************************************************************************)
\* a Seq object (class Seq, lines 7-31); description is <<>> (None) or
\* <<text>>
SeqRecord(name, sequence, description) ==
    [name |-> name, sequence |-> sequence, description |-> description]

\* line 80: '\n'.join(sequence[i:i + wrap] for i in range(0, len, wrap))
RECURSIVE wrapped_seq(_, _)
wrapped_seq(sequence, wrap) ==
    IF Len(sequence) <= wrap THEN sequence
    ELSE SubSeq(sequence, 1, wrap) \o <<"\n">>
         \o wrapped_seq(SubSeq(sequence, wrap + 1, Len(sequence)), wrap)

\* the header written without the blank between name and description
fasta_string_joined_header(seq, wrap) ==
    LET description == IF seq.description # <<>> THEN seq.description[1]
                       ELSE <<>>
    IN  <<">">> \o seq.name \o description \o <<"\n">>
        \o wrapped_seq(seq.sequence, wrap) \o <<"\n">>

\* fasta_string, lines 72-82
fasta_string(seq, wrap) ==
    LET description == IF seq.description # <<>>
                       THEN <<" ">> \o seq.description[1]
                       ELSE <<>>
    IN  <<">">> \o seq.name \o description \o <<"\n">>
        \o wrapped_seq(seq.sequence, wrap) \o <<"\n">>

\* write_fasta_record, lines 85-93: file.write(fasta_string(seq, wrap))
write_fasta_record(seq, file, wrap) == file \o fasta_string(seq, wrap)

(***************************************************************************)
(* FastaIndexRecord (seq.py 96-129).  An index line is the sequence of     *)
(* its tab-separated fields.                                               *)
(***************************************************************************)
FastaIndexRecord(name, length, offset, line_bases, line_width) ==
    [name |-> name, length |-> length, offset |-> offset,
     line_bases |-> line_bases, line_width |-> line_width]

\* len(attr.fields(FastaIndexRecord))
IndexFieldCount == 5

\* bug variant: a line with surplus fields is accepted
from_string_ok_surplus(fields) == Len(fields) >= IndexFieldCount

\* from_string, lines 124-129: succeeds iff the line has 5 fields
from_string_ok(fields) == Len(fields) = IndexFieldCount

from_string(fields) ==
    FastaIndexRecord(fields[1], fields[2], fields[3], fields[4], fields[5])

(***************************************************************************)
(* IndexedFasta (seq.py 132-208).                                          *)
(***************************************************************************)
NoInstance ==
    [kind |-> "None", filename |-> "", records |-> <<>>, message |-> ""]

Failed(kind, filename, message) ==
    [kind |-> kind, filename |-> filename, records |-> <<>>,
     message |-> message]

\* line 155: {record.name: record for record in records}; on a repeated
\* name the later record replaces the earlier one
records_dict(records) ==
    [n \in {records[i].name : i \in DOMAIN records} |->
        records[CHOOSE i \in DOMAIN records :
                    /\ records[i].name = n
                    /\ \A j \in DOMAIN records :
                           records[j].name = n => j <= i]]

\* bug variant: the uniqueness check is missing
names_unique_unchecked(by_name, records) == TRUE

\* lines 156-157: the uniqueness check on the parsed index
names_unique(by_name, records) ==
    Cardinality(DOMAIN by_name) = Len(records)

\* lines 147-148: os.path.exists(self.filename)
fasta_present(file) == file.fasta_exists

\* lines 149-152: os.path.exists(self.index_filename)
index_present(file) == file.fai_exists

\* lines 153-154: every index line must parse
index_parses(fai) == \A i \in DOMAIN fai : from_string_ok(fai[i])

IndexedFasta_init(d, filename) ==
    LET file == d[filename]
    IN  IF ~fasta_present(file)
        THEN Failed("ValueError", filename, "does not exist")
        ELSE IF ~index_present(file)
        THEN Failed("ValueError", filename, "no index found")
        ELSE IF ~index_parses(file.fai)
        THEN Failed("ValueError", filename, "malformed fasta index record")
        ELSE
        LET records == [i \in DOMAIN file.fai |-> from_string(file.fai[i])]
            by_name == records_dict(records)
        IN  IF ~names_unique(by_name, records)
            THEN Failed("ValueError", filename, "non-unique sequence names")
            ELSE [kind |-> "IndexedFasta", filename |-> filename,
                  records |-> by_name, message |-> ""]

\* __len__, __contains__, sequences (lines 159-183)
IndexedFasta_len(self) == Cardinality(DOMAIN self.records)

IndexedFasta_contains(self, item) == item \in DOMAIN self.records

sequences(self) == DOMAIN self.records

\* lines 202-207: step back from the stored offset until a '>' is read;
\* seeking to a negative position raises (returned as -1)
RECURSIVE scan_back(_, _)
scan_back(file, offset) ==
    IF offset < 0 THEN -1
    ELSE IF read1(file, offset) = ">" THEN offset
    ELSE scan_back(file, offset - 1)

\* lines 194-208: open the file, rediscover the header, parse from it
read_record(file, record) ==
    LET start == scan_back(file, record.offset)
    IN  IF start = -1 THEN Raised("ValueError", 1)
        ELSE [parse_fasta_record(file, start) EXCEPT !.opened = 1]

\* bug variant: the file is opened before the name is looked up
get_sequence_open_first(d, self, name) ==
    IF name \notin DOMAIN self.records THEN Raised("KeyError", 1)
    ELSE read_record(d[self.filename].fasta, self.records[name])

\* get_sequence, lines 191-208
get_sequence(d, self, name) ==
    IF name \notin DOMAIN self.records THEN Raised("KeyError", 0)
    ELSE read_record(d[self.filename].fasta, self.records[name])

\* a lookup key: a str (a name) or a value of another type
StrKey(name) == [is_str |-> TRUE, str |-> name, other |-> 0]

OtherKey(n) == [is_str |-> FALSE, str |-> <<>>, other |-> n]

\* __getitem__, lines 168-171
getitem(d, self, item) ==
    IF item.is_str THEN get_sequence(d, self, item.str)
    ELSE Raised("ValueError", 0)

(***************************************************************************)
(* IndexedFastaCollection (seq.py 211-263).                                *)
(***************************************************************************)
\* bug variant: a key already present is silently remapped
RECURSIVE merge_keys_overwrite(_, _, _)
merge_keys_overwrite(index_map, member, keys) ==
    IF keys = <<>> THEN [ok |-> TRUE, index_map |-> index_map, key |-> <<>>]
    ELSE LET k == Head(keys)
         IN  merge_keys_overwrite(
                 [n \in DOMAIN index_map \cup {k} |->
                     IF n = k THEN member ELSE index_map[n]],
                 member, Tail(keys))

\* lines 221-225 for the keys of one member: collision or insertion
RECURSIVE merge_keys(_, _, _)
merge_keys(index_map, member, keys) ==
    IF keys = <<>> THEN [ok |-> TRUE, index_map |-> index_map, key |-> <<>>]
    ELSE LET k == Head(keys)
         IN  IF k \in DOMAIN index_map
             THEN [ok |-> FALSE, index_map |-> index_map, key |-> k]
             ELSE merge_keys(
                     [n \in DOMAIN index_map \cup {k} |->
                         IF n = k THEN member ELSE index_map[n]],
                     member, Tail(keys))

\* the keys of a member in dict (insertion) order: the order of first
\* appearance in the index file
KeyOrder(d, member) ==
    LET fai == d[member.filename].fai
    IN  [i \in DOMAIN fai |-> fai[i][1]]

RECURSIVE merge_members(_, _, _)
merge_members(d, index_map, members) ==
    IF members = <<>>
    THEN [ok |-> TRUE, index_map |-> index_map, key |-> <<>>]
    ELSE LET m == merge_keys(index_map, Head(members),
                             KeyOrder(d, Head(members)))
         IN  IF ~m.ok THEN m
             ELSE merge_members(d, m.index_map, Tail(members))

\* a constructor outcome; files is the list the constructor was given and
\* key the sequence name a "key collision" message names
CollectionOutcome(kind, files, index_map, message, key) ==
    [kind |-> kind, files |-> files, index_map |-> index_map,
     message |-> message, key |-> key]

NoCollection == CollectionOutcome("None", <<>>, <<>>, "", <<>>)

Collection_init(d, files) ==
    LET indexed_fastas == [i \in DOMAIN files |-> IndexedFasta_init(d, files[i])]
        bad == {i \in DOMAIN files : indexed_fastas[i].kind # "IndexedFasta"}
    IN  IF bad # {}
        THEN LET first == CHOOSE i \in bad : \A j \in bad : i <= j
             IN  CollectionOutcome("ValueError", files, <<>>,
                                   indexed_fastas[first].message, <<>>)
        ELSE LET m == merge_members(d, <<>>, indexed_fastas)
             IN  IF ~m.ok
                 THEN CollectionOutcome("ValueError", files, <<>>,
                                        "key collision", m.key)
                 ELSE CollectionOutcome("IndexedFastaCollection", files,
                                        m.index_map, "", <<>>)

\* keys / sequences_names / __contains__ (lines 227-252)
keys(self) == DOMAIN self.index_map

Collection_contains(self, item) == item \in DOMAIN self.index_map

\* get_sequence, lines 260-263
Collection_get_sequence(d, self, name) ==
    IF name \notin DOMAIN self.index_map THEN Raised("KeyError", 0)
    ELSE get_sequence(d, self.index_map[name], name)

\* __getitem__, lines 241-244
Collection_getitem(d, self, item) ==
    IF item.is_str THEN Collection_get_sequence(d, self, item.str)
    ELSE Raised("ValueError", 0)

(***************************************************************************)
(* Gene (gene.py 20-135).  A comma-separated text is the sequence of its   *)
(* comma-separated tokens, each <<>> (an empty token) or <<n>>.            *)
(***************************************************************************)
\* [int(s) for s in text.split(',') if len(s)], lines 37 and 39
RECURSIVE parse_csv(_)
parse_csv(text) ==
    IF text = <<>> THEN <<>>
    ELSE IF Head(text) = <<>> THEN parse_csv(Tail(text))
    ELSE <<Head(text)[1]>> \o parse_csv(Tail(text))

\* ','.join(map(str, values)), lines 72-73; the empty list joins to ''
join_csv(values) ==
    IF values = <<>> THEN <<<<>>>> ELSE [i \in DOMAIN values |-> <<values[i]>>]

\* insert x into the ascending list s
RECURSIVE InsertInt(_, _)
InsertInt(x, s) ==
    IF s = <<>> THEN <<x>>
    ELSE IF x <= Head(s) THEN <<x>> \o s
    ELSE <<Head(s)>> \o InsertInt(x, Tail(s))

\* sorted(list of int)
RECURSIVE sorted(_)
sorted(s) == IF s = <<>> THEN <<>> ELSE InsertInt(Head(s), sorted(Tail(s)))

\* tuple order of two (start, end) intervals
IntervalLeq(a, b) == a[1] < b[1] \/ (a[1] = b[1] /\ a[2] <= b[2])

RECURSIVE InsertInterval(_, _)
InsertInterval(x, s) ==
    IF s = <<>> THEN <<x>>
    ELSE IF IntervalLeq(x, Head(s)) THEN <<x>> \o s
    ELSE <<Head(s)>> \o InsertInterval(x, Tail(s))

\* sorted(list of (start, end) tuples)
RECURSIVE sorted_intervals(_)
sorted_intervals(s) ==
    IF s = <<>> THEN <<>>
    ELSE InsertInterval(Head(s), sorted_intervals(Tail(s)))

Min(a, b) == IF a <= b THEN a ELSE b

Max(a, b) == IF a >= b THEN a ELSE b

\* zip(block_starts, block_sizes), line 48: as long as the shorter list
zip(xs, ys) == [i \in 1..Min(Len(xs), Len(ys)) |-> <<xs[i], ys[i]>>]

\* lines 49-52: the exon of one block
block_exon(gene_start, block) ==
    <<block[1] + gene_start, block[1] + gene_start + block[2]>>

\* lines 51-55: the block gets no CDS exon when the first two of the four
\* sorted bounds are the block's, or are the CDS's
cds_skipped(exon, cds_start, cds_end) ==
    LET sc == sorted(<<exon[1], exon[2], cds_start, cds_end>>)
    IN  \/ (sc[1] = exon[1] /\ sc[2] = exon[2])
        \/ (sc[1] = cds_start /\ sc[2] = cds_end)

\* lines 56-57: the block clipped to the CDS
clipped(exon, cds_start, cds_end) ==
    <<Max(cds_start, exon[1]), Min(cds_end, exon[2])>>

\* lines 48-57, the cds_exons list
RECURSIVE build_cds_exons(_, _, _)
build_cds_exons(exons, cds_start, cds_end) ==
    IF exons = <<>> THEN <<>>
    ELSE (IF cds_skipped(Head(exons), cds_start, cds_end) THEN <<>>
          ELSE <<clipped(Head(exons), cds_start, cds_end)>>)
         \o build_cds_exons(Tail(exons), cds_start, cds_end)

\* bug variant: the length stays the first-pass sum of the block sizes
span_sum_of_sizes(intervals) ==
    SeqSum([i \in DOMAIN intervals |-> intervals[i][2] - intervals[i][1]])

\* lines 59-60: sum([e[1] - e[0] + 1 for e in intervals])
span_sum(intervals) ==
    SeqSum([i \in DOMAIN intervals |->
               intervals[i][2] - intervals[i][1] + 1])

\* the positional and keyword arguments of Gene(...)
GeneArgs(chrom, start, end, name, score, strand, cds_start, cds_end, item_rgb, block_count, block_sizes, block_starts, attrs, kwargs) ==
    [chrom |-> chrom, start |-> start, end |-> end, name |-> name,
     score |-> score, strand |-> strand, cds_start |-> cds_start,
     cds_end |-> cds_end, item_rgb |-> item_rgb,
     block_count |-> block_count, block_sizes |-> block_sizes,
     block_starts |-> block_starts, attrs |-> attrs, kwargs |-> kwargs]

\* Gene.__init__, lines 24-67.  attrs and kwargs are sets of <<key, value>>
\* pairs; extras are the kwargs merged onto the record (line 42, keys that
\* are no field of the record) and aux_attrs their keys (line 43)
Gene_init(args) ==
    LET block_sizes == parse_csv(args.block_sizes)
        block_starts == parse_csv(args.block_starts)
        blocks == zip(block_starts, block_sizes)
        exons == [i \in DOMAIN blocks |-> block_exon(args.start, blocks[i])]
        cds_exons == build_cds_exons(exons, args.cds_start, args.cds_end)
    IN  [kind |-> "Gene",
         chrom |-> args.chrom, start |-> args.start, end |-> args.end,
         name |-> args.name, score |-> args.score, strand |-> args.strand,
         cds_start |-> args.cds_start, cds_end |-> args.cds_end,
         item_rgb |-> args.item_rgb, block_count |-> args.block_count,
         block_sizes |-> block_sizes, block_starts |-> block_starts,
         attrs |-> args.attrs, extras |-> args.kwargs,
         aux_attrs |-> {kv[1] : kv \in args.kwargs},
         exons |-> exons, cds_exons |-> cds_exons,
         length |-> span_sum(exons), cds_length |-> span_sum(cds_exons),
         fivep |-> IF args.strand = "+" THEN args.start ELSE args.end,
         cds_fivep |-> IF args.strand = "+" THEN args.cds_start
                       ELSE args.cds_end]

\* Gene.copy, lines 69-74: a new Gene from the receiver's current fields;
\* the receiver's keyword extras are handed over as the attrs argument
Gene_copy(self) ==
    Gene_init(GeneArgs(self.chrom, self.start, self.end, self.name,
                       self.score, self.strand, self.cds_start,
                       self.cds_end, self.item_rgb, self.block_count,
                       join_csv(self.block_sizes),
                       join_csv(self.block_starts),
                       {kv \in self.extras : kv[1] \in self.aux_attrs},
                       {}))

\* Gene.modified, lines 76-80: setattr of every override on a copy;
\* overrides is a function from field names to values
Gene_modified(self, overrides) ==
    LET copy == Gene_copy(self)
    IN  [f \in DOMAIN copy |->
            IF f \in DOMAIN overrides THEN overrides[f] ELSE copy[f]]

\* the interval list a comparison is asked to use
intervals_of(self, comparison) ==
    IF comparison = "exons" THEN self.exons ELSE self.cds_exons

\* locus_overlap, lines 95-102
locus_overlap(self, other) ==
    IF self.start > other.end \/ other.start > self.end THEN FALSE
    ELSE IF self.chrom # other.chrom THEN FALSE
    ELSE IF self.strand # other.strand THEN FALSE
    ELSE TRUE

\* is_isoform, lines 104-111
is_isoform(self, other, comparison) ==
    IF ~locus_overlap(self, other) THEN FALSE
    ELSE LET A == intervals_of(self, comparison)
             B == intervals_of(other, comparison)
         IN  \E i \in DOMAIN A, j \in DOMAIN B :
                 A[i][1] = B[j][1] /\ A[i][2] = B[j][2]

\* identical, lines 113-117
identical(self, other, comparison) ==
    LET self_exons == sorted_intervals(intervals_of(self, comparison))
        other_exons == sorted_intervals(intervals_of(other, comparison))
    IN  /\ Len(self_exons) = Len(other_exons)
        /\ \A i \in DOMAIN self_exons : self_exons[i] = other_exons[i]

\* overlap on half-open intervals: touching intervals do not overlap
overlap_half_open(self, other, comparison) ==
    IF ~locus_overlap(self, other) THEN FALSE
    ELSE LET A == intervals_of(self, comparison)
             B == intervals_of(other, comparison)
         IN  \E i \in DOMAIN A, j \in DOMAIN B :
                 A[i][1] < B[j][2] /\ B[j][1] < A[i][2]

\* overlap, lines 119-126
overlap(self, other, comparison) ==
    IF ~locus_overlap(self, other) THEN FALSE
    ELSE LET A == intervals_of(self, comparison)
             B == intervals_of(other, comparison)
         IN  \E i \in DOMAIN A, j \in DOMAIN B :
                 A[i][1] <= B[j][2] /\ B[j][1] <= A[i][2]

\* overlap_length measured from the receiver's interval start
overlap_length_from_self(self, other, comparison) ==
    IF ~locus_overlap(self, other) THEN 0
    ELSE LET A == intervals_of(self, comparison)
             B == intervals_of(other, comparison)
         IN  SeqSum([i \in DOMAIN A |->
                 SeqSum([j \in DOMAIN B |->
                     Max(0, Min(A[i][2], B[j][2]) - A[i][1])])])

\* overlap_length, lines 128-135
overlap_length(self, other, comparison) ==
    IF ~locus_overlap(self, other) THEN 0
    ELSE LET A == intervals_of(self, comparison)
             B == intervals_of(other, comparison)
         IN  SeqSum([i \in DOMAIN A |->
                 SeqSum([j \in DOMAIN B |->
                     Max(0, Min(A[i][2], B[j][2])
                            - Max(A[i][1], B[j][1]))])])

(***************************************************************************)
(* gene.py: complement_char and reverse_complement, lines 4-17.            *)
(***************************************************************************)
\* complement_char.chars, line 11
chars ==
    << "a", "c", "g", "t", "u", "m", "r", "w", "s", "y", "k", "v", "h", "d",
       "b", "n", "A", "C", "G", "T", "U", "M", "R", "W", "S", "Y", "K", "V",
       "H", "D", "B", "N" >>

\* complement_char.compl, line 12
compl ==
    << "t", "g", "c", "a", "a", "k", "y", "w", "s", "r", "m", "b", "d", "h",
       "v", "n", "T", "G", "C", "A", "A", "K", "Y", "W", "S", "R", "M", "B",
       "D", "H", "V", "N" >>

\* complement_char.compd = dict(zip(chars, compl)), line 13: the last pair
\* of a repeated key wins
compd(c) == compl[CHOOSE i \in DOMAIN chars :
                      /\ chars[i] = c
                      /\ \A j \in DOMAIN chars : chars[j] = c => j <= i]

\* the complement looked up without regard to case and returned in lowercase
complement_char_caseless(c) ==
    LET lower == IF \E i \in 17..32 : chars[i] = c
                 THEN chars[(CHOOSE i \in 17..32 : chars[i] = c) - 16]
                 ELSE c
    IN  IF \E i \in DOMAIN chars : chars[i] = lower THEN compd(lower)
        ELSE c

\* complement_char, lines 4-8
complement_char(c) ==
    IF \E i \in DOMAIN chars : chars[i] = c THEN compd(c) ELSE c

\* reverse_complement, lines 16-17
reverse_complement(seq) ==
    LET joined == [i \in DOMAIN seq |-> complement_char(seq[i])]
    IN  [i \in DOMAIN joined |-> joined[Len(joined) + 1 - i]]

(***************************************************************************)
(* The environment: FASTA files and the .fai index an external indexer     *)
(* (samtools faidx) writes for them, as in tests/test_fasta.py.            *)
(***************************************************************************)
Paths == {"f1", "f2"}

Names == {<<"a">>, <<"b">>}

\* header descriptions: none, plain text, text holding a '>'
Descriptions == {<<>>, <<<<"x">>>>, <<<<"x", ">", "y">>>>}

Bases == <<"A", "C", "G", "T">>

Base(i) == Bases[((i - 1) % Len(Bases)) + 1]

\* the sequence lines of a record of `length` characters wrapped at `wrap`
RECURSIVE WrappedLines(_, _, _)
WrappedLines(from, length, wrap) ==
    IF from > length THEN <<>>
    ELSE LET to == IF from + wrap - 1 < length THEN from + wrap - 1
                   ELSE length
         IN  <<[i \in 1..(to - from + 1) |-> Base(from + i - 1)]>>
             \o WrappedLines(to + 1, length, wrap)

HeaderText(r) ==
    <<">">> \o r.name
    \o (IF r.description = <<>> THEN <<>> ELSE <<" ">> \o r.description[1])
    \o <<"\n">>

BodyText(r) ==
    LET lines == WrappedLines(1, r.length, r.wrap)
    IN  Flatten([i \in DOMAIN lines |-> lines[i] \o <<"\n">>])

RecordText(r) == HeaderText(r) \o BodyText(r)

FastaText(recs) == Flatten([i \in DOMAIN recs |-> RecordText(recs[i])])

\* the index line of record i: name, length, offset of the first sequence
\* character (the position after the header line), line geometry
IndexLine(recs, i) ==
    LET before == Len(FastaText(SubSeq(recs, 1, i - 1)))
        r == recs[i]
        bases == IF r.length < r.wrap THEN r.length ELSE r.wrap
    IN  <<r.name, r.length, before + Len(HeaderText(r)), bases,
          IF bases = 0 THEN 0 ELSE bases + 1>>

faidx(recs) == [i \in DOMAIN recs |-> IndexLine(recs, i)]

\* index files with one line that does not have 5 fields
Malformed(fai) ==
    UNION {{[fai EXCEPT ![i] = SubSeq(fai[i], 1, 1)],
            [fai EXCEPT ![i] = SubSeq(fai[i], 1, 4)],
            [fai EXCEPT ![i] = Append(fai[i], 0)]} : i \in DOMAIN fai}

OnDisk(fasta_exists, fasta, fai_exists, fai) ==
    [fasta_exists |-> fasta_exists, fasta |-> fasta,
     fai_exists |-> fai_exists, fai |-> fai]

Absent == OnDisk(FALSE, <<>>, FALSE, <<>>)

\* records with every header / wrapping variety
RichRecords ==
    [name : Names, description : Descriptions, length : 0..MaxBases,
     wrap : 1..MaxBases]

\* records with a bare header and one sequence line
PlainRecords ==
    [name : Names, description : {<<>>}, length : {MaxBases},
     wrap : {MaxBases}]

\* a file together with the index that describes it
Indexed(recs) == OnDisk(TRUE, FastaText(recs), TRUE, faidx(recs))

(***************************************************************************)
(* State machine.                                                          *)
(***************************************************************************)
NoResult == [op |-> "none", key |-> OtherKey(0), out |-> Raised("None", 0)]

Call(op, key, out) == [op |-> op, key |-> key, out |-> out]

NoGene == [kind |-> "None"]

GeneSlots == {"a", "b"}

NoVerdict == [op |-> "none"]

\* a block list written as BED writes it: every value followed by a comma
ToCsv(values) == [i \in DOMAIN values |-> <<values[i]>>] \o <<<<>>>>

\* block layouts: up to MaxBlocks (block_start, block_size) pairs
BlockLayouts == SeqsUpTo({0, 2} \X {0, 1}, MaxBlocks)

\* the arguments of a record read from a feature file
ReadArgs(chrom, start, end, strand, cds_start, cds_end, layout, attrs, kwargs) ==
    GeneArgs(chrom, start, end, "g", 0, strand, cds_start, cds_end, "0",
             Len(layout),
             ToCsv([i \in DOMAIN layout |-> layout[i][2]]),
             ToCsv([i \in DOMAIN layout |-> layout[i][1]]),
             attrs, kwargs)

\* the attrs mapping and the keyword extras of a record read with a note
\* and a parsed protein sequence
NoteAttrs == {<<"note", "n">>}

ProteinKwargs == {<<"protein", "MK">>}

\* overrides handed to modified(): a moved start, a new CDS range, a new
\* block size list
OverrideChoices ==
    {[start |-> 2]} \cup {[cds_start |-> 0, cds_end |-> MaxCoord]}
    \cup {[block_sizes |-> <<1>>]}

\* gene[slot] = Gene(...)
NewGene(slot, args) ==
    /\ gene' = [gene EXCEPT ![slot] = Gene_init(args)]
    /\ verdict' = NoVerdict
    /\ UNCHANGED <<disk, indexed, collection, result,
                   written, parsed, calls, handles>>

\* gene[to] = gene[from].copy()
CopyGene(from, to) ==
    /\ gene[from].kind = "Gene"
    /\ gene' = [gene EXCEPT ![to] = Gene_copy(gene[from])]
    /\ verdict' = NoVerdict
    /\ UNCHANGED <<disk, indexed, collection, result,
                   written, parsed, calls, handles>>

\* gene[to] = gene[from].modified(**overrides)
ModifyGene(from, to, overrides) ==
    /\ gene[from].kind = "Gene"
    /\ gene' = [gene EXCEPT ![to] = Gene_modified(gene[from], overrides)]
    /\ verdict' = NoVerdict
    /\ UNCHANGED <<disk, indexed, collection, result,
                   written, parsed, calls, handles>>

\* every comparison of gene a with gene b on one interval list
Compare(comparison) ==
    /\ gene["a"].kind = "Gene"
    /\ gene["b"].kind = "Gene"
    /\ verdict' =
           [op |-> "compare", comparison |-> comparison,
            identical |-> identical(gene["a"], gene["b"], comparison),
            is_isoform |-> is_isoform(gene["a"], gene["b"], comparison),
            overlap |-> overlap(gene["a"], gene["b"], comparison),
            overlap_length |->
                overlap_length(gene["a"], gene["b"], comparison),
            overlap_length_swapped |->
                overlap_length(gene["b"], gene["a"], comparison)]
    /\ UNCHANGED <<disk, indexed, collection, result, gene,
                   written, parsed, calls, handles>>

\* the threads that call into one IndexedFasta, and the file objects they
\* can hold open at a time
Threads == {"t1", "t2"}

HandleIds == 1..Cardinality(Threads)

NoFrame ==
    [pc |-> "idle", name |-> <<>>, stored |-> 0, f |-> 0, offset |-> 0,
     out |-> Raised("None", 0)]

ClosedHandle == [open |-> FALSE, pos |-> 0]

\* nothing written or parsed, no call in progress, no file open
Quiet ==
    /\ written = <<>>
    /\ parsed = <<>>
    /\ calls = [t \in Threads |-> NoFrame]
    /\ handles = [h \in HandleIds |-> ClosedHandle]

Idle ==
    /\ indexed = NoInstance
    /\ collection = NoCollection
    /\ result = NoResult
    /\ gene = [s \in GeneSlots |-> NoGene]
    /\ verdict = NoVerdict
    /\ Quiet

\* lookup keys: every name, one name in no index, one non-string
LookupNames == Names \cup {<<"z">>}

LookupKeys == {StrKey(n) : n \in LookupNames} \cup {OtherKey(1)}

\* IndexedFasta(filename)
NewIndexedFasta(filename) ==
    /\ indexed' = IndexedFasta_init(disk, filename)
    /\ result' = NoResult
    /\ UNCHANGED <<disk, collection, gene, verdict,
                   written, parsed, calls, handles>>

\* indexed.get_sequence(name)
GetSequence(name) ==
    /\ indexed.kind = "IndexedFasta"
    /\ result' = Call("get_sequence", StrKey(name),
                      get_sequence(disk, indexed, name))
    /\ UNCHANGED <<disk, indexed, collection, gene, verdict,
                   written, parsed, calls, handles>>

\* indexed[item]
GetItem(item) ==
    /\ indexed.kind = "IndexedFasta"
    /\ result' = Call("getitem", item, getitem(disk, indexed, item))
    /\ UNCHANGED <<disk, indexed, collection, gene, verdict,
                   written, parsed, calls, handles>>

\* IndexedFastaCollection(files)
NewCollection(files) ==
    /\ collection' = Collection_init(disk, files)
    /\ result' = NoResult
    /\ UNCHANGED <<disk, indexed, gene, verdict,
                   written, parsed, calls, handles>>

\* collection.get_sequence(name)
CollectionGetSequence(name) ==
    /\ collection.kind = "IndexedFastaCollection"
    /\ result' = Call("collection.get_sequence", StrKey(name),
                      Collection_get_sequence(disk, collection, name))
    /\ UNCHANGED <<disk, indexed, collection, gene, verdict,
                   written, parsed, calls, handles>>

\* collection[item]
CollectionGetItem(item) ==
    /\ collection.kind = "IndexedFastaCollection"
    /\ result' = Call("collection.getitem", item,
                      Collection_getitem(disk, collection, item))
    /\ UNCHANGED <<disk, indexed, collection, gene, verdict,
                   written, parsed, calls, handles>>

\* parse_fasta_record(file) on the open sequence file "f1", from the
\* cursor the previous parse left (0 on a fresh handle)
ParseRecord ==
    /\ disk["f1"].fasta_exists
    /\ result.op \in {"none", "parse_fasta_record"}
    /\ result.out.kind \in {"None", "Seq"}
    /\ LET cursor == IF result.op = "none" THEN 0 ELSE result.out.pos
       IN  result' = Call("parse_fasta_record", OtherKey(cursor),
                          parse_fasta_record(disk["f1"].fasta, cursor))
    /\ UNCHANGED <<disk, indexed, collection, gene, verdict,
                   written, parsed, calls, handles>>

(***************************************************************************)
(* get_sequence (seq.py 185-208) statement by statement, one frame and one *)
(* file object per call.                                                   *)
(***************************************************************************)
\* one file object kept for every call
open_file_shared(h) == 1

\* open(self.filename), line 194: a new file object, here the free handle
\* of the smallest id
open_file(h) ==
    CHOOSE f \in HandleIds :
        /\ ~h[f].open
        /\ \A g \in HandleIds : ~h[g].open => f <= g

\* the scan position is left where it is
scan_step_stay(offset) == offset

\* line 205: offset -= 1
scan_step(offset) == offset - 1

\* the calls that hold a file object
Holding == {"seek", "read", "seek_header", "parse", "exit"}

\* lines 191-193: the index lookup; an absent name raises KeyError
CallGetSequence(t, name) ==
    /\ indexed.kind = "IndexedFasta"
    /\ calls[t].pc \in {"idle", "done"}
    /\ calls' = [calls EXCEPT ![t] =
                    IF name \notin DOMAIN indexed.records
                    THEN [NoFrame EXCEPT !.pc = "done", !.name = name,
                                         !.out = Raised("KeyError", 0)]
                    ELSE [NoFrame EXCEPT
                              !.pc = "open", !.name = name,
                              !.stored = indexed.records[name].offset]]
    /\ UNCHANGED <<disk, indexed, collection, result, gene, verdict, written,
                   parsed, handles>>

\* lines 194 and 202: with open(self.filename) as f; offset = record.offset
OpenFile(t) ==
    /\ calls[t].pc = "open"
    /\ LET f == open_file(handles)
       IN  /\ handles' = [handles EXCEPT ![f] = [open |-> TRUE, pos |-> 0]]
           /\ calls' = [calls EXCEPT ![t].f = f,
                                     ![t].offset = calls[t].stored,
                                     ![t].pc = "seek"]
    /\ UNCHANGED <<disk, indexed, collection, result, gene, verdict, written,
                   parsed>>

\* lines 203 and 206: f.seek(offset); a negative position raises ValueError
Seek(t) ==
    /\ calls[t].pc = "seek"
    /\ IF calls[t].offset < 0
       THEN /\ calls' = [calls EXCEPT ![t].out = Raised("ValueError", 1),
                                      ![t].pc = "exit"]
            /\ UNCHANGED handles
       ELSE /\ handles' = [handles EXCEPT ![calls[t].f].pos = calls[t].offset]
            /\ calls' = [calls EXCEPT ![t].pc = "read"]
    /\ UNCHANGED <<disk, indexed, collection, result, gene, verdict, written,
                   parsed>>

\* lines 204-205: while f.read(1) != '>': offset -= 1
Read(t) ==
    /\ calls[t].pc = "read"
    /\ LET f == calls[t].f
           c == read1(disk[indexed.filename].fasta, handles[f].pos)
       IN  /\ handles' = [handles EXCEPT
                              ![f].pos = IF c = "" THEN @ ELSE @ + 1]
           /\ calls' = IF c # ">"
                       THEN [calls EXCEPT
                                ![t].offset = scan_step(calls[t].offset),
                                ![t].pc = "seek"]
                       ELSE [calls EXCEPT ![t].pc = "seek_header"]
    /\ UNCHANGED <<disk, indexed, collection, result, gene, verdict, written,
                   parsed>>

\* line 207: f.seek(offset), back onto the '>'
SeekHeader(t) ==
    /\ calls[t].pc = "seek_header"
    /\ handles' = [handles EXCEPT ![calls[t].f].pos = calls[t].offset]
    /\ calls' = [calls EXCEPT ![t].pc = "parse"]
    /\ UNCHANGED <<disk, indexed, collection, result, gene, verdict, written,
                   parsed>>

\* line 208: parse_fasta_record(f) from the cursor of f
Parse(t) ==
    /\ calls[t].pc = "parse"
    /\ \E f \in {calls[t].f} :
       \E out \in {parse_fasta_record(disk[indexed.filename].fasta,
                                      handles[f].pos)} :
           /\ handles' = [handles EXCEPT
                              ![f].pos = IF out.pos >= 0 THEN out.pos ELSE @]
           /\ calls' = [calls EXCEPT ![t].out = [out EXCEPT !.opened = 1],
                                     ![t].pc = "exit"]
    /\ UNCHANGED <<disk, indexed, collection, result, gene, verdict, written,
                   parsed>>

\* the end of the with block, on return and on raise: f is closed
Exit(t) ==
    /\ calls[t].pc = "exit"
    /\ handles' = [handles EXCEPT ![calls[t].f] = ClosedHandle]
    /\ calls' = [calls EXCEPT ![t].f = 0, ![t].offset = 0, ![t].pc = "done"]
    /\ UNCHANGED <<disk, indexed, collection, result, gene, verdict, written,
                   parsed>>

\* every statement of a call after its index lookup
Run(t) ==
    \/ OpenFile(t)
    \/ Seek(t)
    \/ Read(t)
    \/ SeekHeader(t)
    \/ Parse(t)
    \/ Exit(t)

(***************************************************************************)
(* SpecFasta: one IndexedFasta over a FASTA file of any header and         *)
(* wrapping variety, with the index that describes it.                     *)
(***************************************************************************)
InitFasta ==
    /\ \E recs \in SeqsUpTo(RichRecords, MaxRecs) :
           disk = [p \in Paths |-> IF p = "f1" THEN Indexed(recs) ELSE Absent]
    /\ Idle

NextFasta ==
    \/ \E p \in Paths : NewIndexedFasta(p)
    \/ \E n \in LookupNames : GetSequence(n)
    \/ \E k \in LookupKeys : GetItem(k)

SpecFasta == InitFasta /\ [][NextFasta]_vars

(***************************************************************************)
(* SpecIndex: IndexedFasta construction over present / missing files and   *)
(* well-formed / malformed / repeating index lines.                        *)
(***************************************************************************)
InitIndex ==
    /\ \E recs \in SeqsUpTo(PlainRecords, MaxRecs) :
       \E fai \in {faidx(recs)} \cup Malformed(faidx(recs)) :
       \E fasta_exists \in BOOLEAN, fai_exists \in BOOLEAN :
           disk = [p \in Paths |->
                      IF p = "f1"
                      THEN OnDisk(fasta_exists, FastaText(recs),
                                  fai_exists, fai)
                      ELSE Absent]
    /\ Idle

NextIndex ==
    \/ \E p \in Paths : NewIndexedFasta(p)
    \/ \E n \in LookupNames : GetSequence(n)
    \/ \E k \in LookupKeys : GetItem(k)

SpecIndex == InitIndex /\ [][NextIndex]_vars

(***************************************************************************)
(* SpecCollection: an IndexedFastaCollection over two indexed files, and   *)
(* lookups on it and on a single IndexedFasta.                             *)
(***************************************************************************)
InitCollection ==
    /\ \E recs1 \in SeqsUpTo(PlainRecords, MaxRecs) :
       \E recs2 \in SeqsUpTo(PlainRecords, MaxRecs) :
           disk = [p \in Paths |->
                      IF p = "f1" THEN Indexed(recs1) ELSE Indexed(recs2)]
    /\ Idle

NextCollection ==
    \/ \E p \in Paths : NewIndexedFasta(p)
    \/ \E n \in LookupNames : GetSequence(n)
    \/ \E k \in LookupKeys : GetItem(k)
    \/ \E files \in SeqsUpTo(Paths, MaxFiles) : NewCollection(files)
    \/ \E n \in LookupNames : CollectionGetSequence(n)
    \/ \E k \in LookupKeys : CollectionGetItem(k)

SpecCollection == InitCollection /\ [][NextCollection]_vars

(***************************************************************************)
(* SpecParse: parse_fasta_record over every short text.                    *)
(***************************************************************************)
TextChars == {">", "a", " ", "\n", "A"}

InitParse ==
    /\ \E text \in SeqsUpTo(TextChars, MaxText) :
           disk = [p \in Paths |->
                      IF p = "f1" THEN OnDisk(TRUE, text, FALSE, <<>>)
                      ELSE Absent]
    /\ Idle

NextParse == ParseRecord

SpecParse == InitParse /\ [][NextParse]_vars

(***************************************************************************)
(* Properties of the indexed FASTA layer.                                  *)
(***************************************************************************)
\* the last call was a lookup of an indexed name on the IndexedFasta
LookedUpIndexedName ==
    /\ indexed.kind = "IndexedFasta"
    /\ result.op \in {"get_sequence", "getitem"}
    /\ result.key.is_str
    /\ result.key.str \in sequences(indexed)

\* C1: for every name returned by sequences(), get_sequence(name) returns
\* a Seq whose name is that name, whatever the header line carries and
\* wherever the record is stored in the file.
C1_LookupReturnsNamedRecord ==
    LookedUpIndexedName =>
        /\ result.out.kind = "Seq"
        /\ result.out.name = result.key.str

\* C2: for every name in the index, the Seq returned by get_sequence(name)
\* has a sequence whose length is the length field of that name's index
\* record.
C2_SequenceLengthIsIndexLength ==
    LookedUpIndexedName =>
        /\ result.out.kind = "Seq"
        /\ Len(result.out.sequence) = indexed.records[result.key.str].length

\* the names on the lines of an index file are pairwise distinct
PairwiseDistinct(fai) ==
    \A i, j \in DOMAIN fai : fai[i][1] = fai[j][1] => i = j

\* the files of path p are there and every index line has 5 fields
Loadable(p) ==
    /\ disk[p].fasta_exists
    /\ disk[p].fai_exists
    /\ \A i \in DOMAIN disk[p].fai : Len(disk[p].fai[i]) = 5

\* C3: IndexedFasta construction over a parsable index fails with the
\* non-unique-names error when two index lines carry the same name, and
\* when it succeeds the names are pairwise distinct, len(index) and
\* len(sequences()) equal the number of index lines and every line's name
\* maps to that line's record.
C3_IndexNamesUnique ==
    indexed.kind # "None" =>
        LET fai == disk[indexed.filename].fai
        IN  /\ (Loadable(indexed.filename) /\ ~PairwiseDistinct(fai)) =>
                   /\ indexed.kind = "ValueError"
                   /\ indexed.message = "non-unique sequence names"
            /\ indexed.kind = "IndexedFasta" =>
                   /\ PairwiseDistinct(fai)
                   /\ IndexedFasta_len(indexed) = Len(fai)
                   /\ Cardinality(sequences(indexed)) = Len(fai)
                   /\ \A i \in DOMAIN fai :
                          /\ IndexedFasta_contains(indexed, fai[i][1])
                          /\ indexed.records[fai[i][1]] =
                                 FastaIndexRecord(fai[i][1], fai[i][2],
                                                  fai[i][3], fai[i][4],
                                                  fai[i][5])

\* C3 witness: an index with a repeated name was rejected
C3_Witness ==
    /\ indexed.kind = "ValueError"
    /\ indexed.message = "non-unique sequence names"
    /\ Len(disk[indexed.filename].fai) >= 2

\* the names on the index lines of path p
IndexNames(p) == {disk[p].fai[i][1] : i \in DOMAIN disk[p].fai}

\* name n is in the index of more than one entry of the file list
Shared(files, n) ==
    \E i, j \in DOMAIN files :
        i # j /\ n \in IndexNames(files[i]) /\ n \in IndexNames(files[j])

\* every listed file loads as an IndexedFasta on its own
MembersLoad(files) ==
    \A i \in DOMAIN files :
        Loadable(files[i]) /\ PairwiseDistinct(disk[files[i]].fai)

\* C4: over a list of files that each load, IndexedFastaCollection
\* construction fails with the key-collision error, naming a key that is
\* in more than one listed index, whenever some name is in more than one
\* of them (the same file listed twice included); when it succeeds keys()
\* is the union of the members' sequences() and every key maps to the one
\* member whose index holds it.
C4_CollectionRejectsSharedNames ==
    (collection.kind # "None" /\ MembersLoad(collection.files)) =>
        LET files == collection.files
        IN  /\ (\E n \in Names : Shared(files, n)) =>
                   /\ collection.kind = "ValueError"
                   /\ collection.message = "key collision"
                   /\ Shared(files, collection.key)
            /\ collection.kind = "IndexedFastaCollection" =>
                   /\ keys(collection) =
                          UNION {IndexNames(files[i]) : i \in DOMAIN files}
                   /\ \A k \in keys(collection) :
                          /\ collection.index_map[k].kind = "IndexedFasta"
                          /\ k \in sequences(collection.index_map[k])
                          /\ \A i \in DOMAIN files :
                                 k \in IndexNames(files[i]) =>
                                     collection.index_map[k].filename
                                         = files[i]

\* C4 witness: two different files sharing a name were rejected
C4_Witness ==
    /\ collection.kind = "ValueError"
    /\ collection.message = "key collision"
    /\ Len(collection.files) = 2
    /\ collection.files[1] # collection.files[2]
    /\ Shared(collection.files, collection.key)

\* the index a lookup call consults
ConsultedIndex(call) ==
    IF call.op \in {"get_sequence", "getitem"} THEN sequences(indexed)
    ELSE keys(collection)

\* what C5 asks of one lookup step (result' is the call and its outcome)
C5_LookupStep ==
    result'.op \in {"get_sequence", "getitem", "collection.get_sequence",
                    "collection.getitem"} =>
        /\ result'.out.kind = "Seq" =>
               /\ result'.key.is_str
               /\ result'.key.str \in ConsultedIndex(result')
        /\ ~result'.key.is_str =>
               /\ result'.out.kind = "ValueError"
               /\ result'.out.opened = 0
        /\ (result'.key.is_str
              /\ result'.key.str \notin ConsultedIndex(result')) =>
               /\ result'.out.kind = "KeyError"
               /\ result'.out.opened = 0
        /\ indexed' = indexed
        /\ collection' = collection
        /\ disk' = disk

\* C5: a lookup returns a Seq only for a string key present in the index;
\* a non-string key fails with ValueError, an absent string name with
\* KeyError, in both cases without opening the sequence file, and no
\* lookup changes the index mappings.
C5_FailedLookupTouchesNothing == [][C5_LookupStep]_vars

\* C5 witness: an absent name was looked up by item access
C5_Witness ==
    /\ result.op = "getitem"
    /\ result.key.is_str
    /\ result.key.str \notin sequences(indexed)
    /\ result.out.kind = "KeyError"

\* C6: IndexedFasta construction fails whenever the sequence file is
\* missing, the index file is missing or an index line does not have 5
\* fields, and no lookup ever runs on such files.
C6_ConstructionFailsEagerly ==
    /\ indexed.kind # "None" =>
           (~Loadable(indexed.filename) => indexed.kind = "ValueError")
    /\ result.op \in {"get_sequence", "getitem"} =>
           /\ indexed.kind = "IndexedFasta"
           /\ Loadable(indexed.filename)

\* C6 witness: both files are there and the index held a malformed line
C6_Witness ==
    /\ indexed.kind = "ValueError"
    /\ indexed.message = "malformed fasta index record"
    /\ disk[indexed.filename].fasta_exists
    /\ disk[indexed.filename].fai_exists

\* no '>' at or after position pos of text
HeaderFree(text, pos) ==
    \A i \in DOMAIN text : i > pos => text[i] # ">"

\* C7: parse_fasta_record on an input with no '>' between the cursor and
\* the end of file raises StopIteration and returns no Seq.
C7_NoHeaderRaisesStopIteration ==
    (result.op = "parse_fasta_record"
       /\ HeaderFree(disk["f1"].fasta, result.key.other)) =>
        result.out.kind = "StopIteration"

\* C7 witness: a non-empty header-free text was parsed from its start
C7_Witness ==
    /\ result.op = "parse_fasta_record"
    /\ result.key.other = 0
    /\ disk["f1"].fasta # <<>>
    /\ HeaderFree(disk["f1"].fasta, 0)
    /\ result.out.kind = "StopIteration"

(***************************************************************************)
(* SpecGene: one record read into slot a, and the records copy() and       *)
(* modified() derive from it in slot b.                                    *)
(***************************************************************************)
IdleDisk == disk = [p \in Paths |-> Absent]

InitGene == IdleDisk /\ Idle

\* a record is read from a feature file into slot a
ReadGene ==
    /\ gene["a"].kind = "None"
    /\ \E strand \in {"+", "-"}, cds_start \in 0..MaxCoord,
          cds_end \in 0..MaxCoord, layout \in BlockLayouts :
           NewGene("a", ReadArgs("chr1", 1, MaxCoord, strand, cds_start,
                                 cds_end, layout, NoteAttrs, ProteinKwargs))

NextGene ==
    \/ ReadGene
    \/ \E from \in GeneSlots : CopyGene(from, "b")
    \/ \E from \in GeneSlots, overrides \in OverrideChoices :
           ModifyGene(from, "b", overrides)

SpecGene == InitGene /\ [][NextGene]_vars

(***************************************************************************)
(* SpecGenePair: two records and their comparisons.                        *)
(***************************************************************************)
\* the spans a compared record is read with
PairSpans == {<<1, 2>>, <<3, MaxCoord>>}

PairLayouts == SeqsUpTo((0..1) \X (0..1), MaxBlocks)

InitGenePair == IdleDisk /\ Idle

\* a record is read into an empty slot; slot a holds the chr1 + record
ReadPairGene(slot) ==
    /\ gene[slot].kind = "None"
    /\ \E chrom \in {"chr1", "chr2"}, strand \in {"+", "-"},
          span \in PairSpans, layout \in PairLayouts :
           /\ slot = "a" => chrom = "chr1" /\ strand = "+"
           /\ NewGene(slot, ReadArgs(chrom, span[1], span[2], strand, 1,
                                     MaxCoord, layout, {}, {}))

NextGenePair ==
    \/ \E slot \in GeneSlots : ReadPairGene(slot)
    \/ \E comparison \in {"exons", "cds_exons"} : Compare(comparison)

SpecGenePair == InitGenePair /\ [][NextGenePair]_vars

(***************************************************************************)
(* SpecComplement: reverse_complement applied to a string and then to its  *)
(* own output.                                                             *)
(***************************************************************************)
\* the characters of the complement table
SupportedAlphabet == {chars[i] : i \in DOMAIN chars}

InitComplement == IdleDisk /\ Idle

\* out = reverse_complement(seq)
ReverseComplement(seq) ==
    /\ verdict = NoVerdict
    /\ verdict' = [op |-> "reverse_complement", seq |-> seq,
                   out |-> reverse_complement(seq), calls |-> 1]
    /\ UNCHANGED <<disk, indexed, collection, result, gene,
                   written, parsed, calls, handles>>

\* out = reverse_complement(out)
ReverseComplementAgain ==
    /\ verdict.op = "reverse_complement"
    /\ verdict.calls = 1
    /\ verdict' = [verdict EXCEPT !.out = reverse_complement(verdict.out),
                                  !.calls = 2]
    /\ UNCHANGED <<disk, indexed, collection, result, gene,
                   written, parsed, calls, handles>>

NextComplement ==
    \/ \E seq \in SeqsUpTo(SupportedAlphabet, MaxSeqLen) :
           ReverseComplement(seq)
    \/ ReverseComplementAgain

SpecComplement == InitComplement /\ [][NextComplement]_vars

(***************************************************************************)
(* SpecBlocks: records built from the twelve fields of a feature-file line *)
(* as a reader hands them over, block count and block lists unchecked.     *)
(***************************************************************************)
InitBlocks == IdleDisk /\ Idle

\* Gene(*fields) for one line: the declared block count, the block sizes
\* and the block starts are three independent fields of the line
ReadFields ==
    /\ gene["a"].kind = "None"
    /\ \E end \in {2, MaxCoord}, block_count \in 0..MaxBlocks,
          block_sizes \in SeqsUpTo(0..2, MaxBlocks),
          block_starts \in SeqsUpTo({0, 2}, MaxBlocks) :
           NewGene("a", GeneArgs("chr1", 1, end, "g", 0, "+", 1, end, "0",
                                 block_count, ToCsv(block_sizes),
                                 ToCsv(block_starts), {}, {}))

NextBlocks ==
    \/ ReadFields
    \/ CopyGene("a", "b")

SpecBlocks == InitBlocks /\ [][NextBlocks]_vars

(***************************************************************************)
(* SpecRoundTrip: records are written to file f1 with write_fasta_record,  *)
(* then the file is reopened and parsed record by record.                  *)
(***************************************************************************)
\* names without whitespace, one of them holding a '>'
RoundTripNames == {<<"a">>, <<"b", ">">>}

\* descriptions: none, text with an inner blank, text holding a '>'
RoundTripDescriptions == {<<>>, <<<<"x", " ", "y">>>>, <<<<"x", ">", "y">>>>}

\* sequences of 0..MaxBases characters
RoundTripSequences == {[i \in 1..n |-> Base(i)] : n \in 0..MaxBases}

RoundTripSeqs ==
    {SeqRecord(n, s, d) : n \in RoundTripNames, s \in RoundTripSequences,
                    d \in RoundTripDescriptions}

\* f1 has just been opened for writing
InitRoundTrip ==
    /\ disk = [p \in Paths |->
                  IF p = "f1" THEN OnDisk(TRUE, <<>>, FALSE, <<>>) ELSE Absent]
    /\ Idle

\* write_fasta_record(seq, f1, wrap)
WriteFastaRecord(seq, wrap) ==
    /\ parsed = <<>>
    /\ Len(written) < MaxRecs
    /\ disk' = [disk EXCEPT !["f1"].fasta = write_fasta_record(seq, @, wrap)]
    /\ written' = Append(written, [seq |-> seq, wrap |-> wrap])
    /\ UNCHANGED <<indexed, collection, result, gene, verdict, parsed, calls,
                   handles>>

\* parse_fasta_record on the reopened f1, from where the previous call
\* left the cursor; no further call after one has raised
ParseWritten ==
    /\ IF parsed = <<>> THEN TRUE ELSE parsed[Len(parsed)].kind = "Seq"
    /\ LET cursor == IF parsed = <<>> THEN 0 ELSE parsed[Len(parsed)].pos
       IN  parsed' = Append(parsed,
                            parse_fasta_record(disk["f1"].fasta, cursor))
    /\ UNCHANGED <<disk, indexed, collection, result, gene, verdict, written,
                   calls, handles>>

NextRoundTrip ==
    \/ \E seq \in RoundTripSeqs, wrap \in 1..MaxBases :
           WriteFastaRecord(seq, wrap)
    \/ ParseWritten

SpecRoundTrip == InitRoundTrip /\ [][NextRoundTrip]_vars

(***************************************************************************)
(* SpecThreads: two threads call get_sequence on one IndexedFasta, their   *)
(* statements interleaved in every order.  The file is the one the index   *)
(* describes, or that file with its first character lost.                  *)
(***************************************************************************)
\* nothing but the IndexedFasta over f1 exists
OnlyIndexed ==
    /\ indexed = IndexedFasta_init(disk, "f1")
    /\ indexed.kind = "IndexedFasta"
    /\ collection = NoCollection
    /\ result = NoResult
    /\ gene = [s \in GeneSlots |-> NoGene]
    /\ verdict = NoVerdict
    /\ Quiet

InitThreads ==
    /\ \E recs \in SeqsUpTo(PlainRecords, MaxRecs), lost \in {0, 1} :
           disk = [p \in Paths |->
                      IF p = "f1"
                      THEN OnDisk(TRUE, DropFirst(FastaText(recs), lost),
                                  TRUE, faidx(recs))
                      ELSE Absent]
    /\ OnlyIndexed

NextThreads ==
    \/ \E t \in Threads, name \in LookupNames : CallGetSequence(t, name)
    \/ \E t \in Threads : Run(t)

SpecThreads == InitThreads /\ [][NextThreads]_vars

(***************************************************************************)
(* SpecScan: one caller, a file of any short content and an index record   *)
(* with any stored offset.  A call that has started keeps running.         *)
(***************************************************************************)
\* stored offsets: before, inside and past the end of the file
StoredOffsets == -1..(MaxText + 1)

\* the characters the backward scan tells apart: the marker, a sequence
\* character, a line end
ScanChars == {">", "A", "\n"}

InitScan == IdleDisk /\ Idle

\* a sequence file and an index file with one record are put in place
StoreFiles(text, offset) ==
    /\ ~disk["f1"].fasta_exists
    /\ disk' = [disk EXCEPT !["f1"] =
                    OnDisk(TRUE, text, TRUE,
                           << <<<<"a">>, 0, offset, 0, 0>> >>)]
    /\ UNCHANGED <<indexed, collection, result, gene, verdict, written,
                   parsed, calls, handles>>

NextScan ==
    \/ \E text \in SeqsUpTo(ScanChars, MaxText), offset \in StoredOffsets :
           StoreFiles(text, offset)
    \/ NewIndexedFasta("f1")
    \/ \E name \in {<<"a">>, <<"z">>} : CallGetSequence("t1", name)
    \/ Run("t1")

SpecScan == InitScan /\ [][NextScan]_vars /\ WF_vars(Run("t1"))

(***************************************************************************)
(* Properties of the Gene record.                                          *)
(***************************************************************************)
\* the CDS exons of a list of exons: in order, each exon that is not
\* wholly outside the closed range [cds_start, cds_end], clipped to it
RECURSIVE ClippedToCds(_, _, _)
ClippedToCds(exons, cds_start, cds_end) ==
    IF exons = <<>> THEN <<>>
    ELSE LET e == Head(exons)
         IN  (IF e[2] < cds_start \/ e[1] > cds_end THEN <<>>
              ELSE <<<<Max(cds_start, e[1]), Min(cds_end, e[2])>>>>)
             \o ClippedToCds(Tail(exons), cds_start, cds_end)

\* C8: for a constructed record with start' <= end' for every block and
\* cds_start <= cds_end, cds_exons is, in block order, the clipped
\* interval of every block not wholly outside [cds_start, cds_end], and
\* every emitted interval is non-empty and inside its block and the CDS.
C8_CdsExonsAreClippedBlocks ==
    LET g == gene["a"]
    IN  (g.kind = "Gene" /\ g.cds_start <= g.cds_end
           /\ \A i \in DOMAIN g.exons : g.exons[i][1] <= g.exons[i][2]) =>
            /\ g.cds_exons = ClippedToCds(g.exons, g.cds_start, g.cds_end)
            /\ \A i \in DOMAIN g.cds_exons :
                   /\ g.cds_exons[i][1] <= g.cds_exons[i][2]
                   /\ g.cds_start <= g.cds_exons[i][1]
                   /\ g.cds_exons[i][2] <= g.cds_end

\* the sum of end - start + 1 over a list of intervals
RECURSIVE ClosedSpans(_)
ClosedSpans(intervals) ==
    IF intervals = <<>> THEN 0
    ELSE Head(intervals)[2] - Head(intervals)[1] + 1
         + ClosedSpans(Tail(intervals))

\* C9: every record, constructed or derived by copy() and modified()
\* calls that do not override exons, cds_exons, length or cds_length,
\* has length == sum(e[1]-e[0]+1 for e in exons) and cds_length likewise
\* over cds_exons.
C9_LengthsAreSpanSums ==
    \A slot \in GeneSlots :
        gene[slot].kind = "Gene" =>
            /\ gene[slot].length = ClosedSpans(gene[slot].exons)
            /\ gene[slot].cds_length = ClosedSpans(gene[slot].cds_exons)

\* C9 witness: a record derived by modified() whose start was moved while
\* its exons still are those of the receiver
C9_Witness ==
    /\ gene["b"].kind = "Gene"
    /\ gene["b"].start = 2
    /\ gene["b"].exons # <<>>
    /\ gene["b"].cds_exons # <<>>
    /\ gene["b"].exons[1][1] # gene["b"].start + gene["b"].block_starts[1]
    /\ gene["b"].length > 0

\* C10: when both chosen interval lists are non-empty, identical(a, b)
\* implies is_isoform(a, b) and overlap(a, b).
C10_IdenticalImpliesIsoformAndOverlap ==
    (/\ verdict.op = "compare"
     /\ intervals_of(gene["a"], verdict.comparison) # <<>>
     /\ intervals_of(gene["b"], verdict.comparison) # <<>>
     /\ verdict.identical) =>
        verdict.is_isoform /\ verdict.overlap

C12_OverlapLengthSymmetric ==
    verdict.op = "compare" =>
        verdict.overlap_length = verdict.overlap_length_swapped

\* C12 witness: two different records with a positive overlap length
C12_Witness ==
    /\ verdict.op = "compare"
    /\ verdict.overlap_length > 0
    /\ intervals_of(gene["a"], verdict.comparison)
           # intervals_of(gene["b"], verdict.comparison)
    /\ Len(intervals_of(gene["a"], verdict.comparison))
           # Len(intervals_of(gene["b"], verdict.comparison))

\* no two intervals of the list share a position
PairwiseDisjoint(intervals) ==
    \A i, j \in DOMAIN intervals :
        i # j => \/ intervals[i][2] < intervals[j][1]
                 \/ intervals[j][2] < intervals[i][1]

\* C13: a record compared with an equal record: when its exons are
\* pairwise disjoint, overlap_length(a, a) >= a.length, the sum of
\* end - start + 1 over its exons.
C13_SelfOverlapCoversLength ==
    (/\ verdict.op = "compare"
     /\ verdict.comparison = "exons"
     /\ gene["a"] = gene["b"]
     /\ PairwiseDisjoint(gene["a"].exons)) =>
        verdict.overlap_length >= gene["a"].length

\* C14 as stated: for every string s over 'acgtumrwsykvhdbn' and its
\* uppercase, reverse_complement(reverse_complement(s)) == s.
C14_ReverseComplementInvolution ==
    (verdict.op = "reverse_complement" /\ verdict.calls = 2) =>
        verdict.out = verdict.seq

\* C14 amended: for every string s over the table's characters other than
\* 'u' and 'U', reverse_complement(reverse_complement(s)) == s.
C14_InvolutionWithoutU ==
    (/\ verdict.op = "reverse_complement"
     /\ verdict.calls = 2
     /\ \A i \in DOMAIN verdict.seq : verdict.seq[i] \notin {"u", "U"}) =>
        verdict.out = verdict.seq

\* C14 witness: a two-character string of mixed case, complemented twice
C14_Witness ==
    /\ verdict.op = "reverse_complement"
    /\ verdict.calls = 2
    /\ verdict.seq = <<"a", "G">>
    /\ verdict.out = verdict.seq

\* the constructor's positional fields and the values it derives from them
CoreFields ==
    {"chrom", "start", "end", "name", "score", "strand", "cds_start",
     "cds_end", "item_rgb", "block_count", "block_sizes", "block_starts"}

DerivedFields ==
    {"exons", "cds_exons", "length", "cds_length", "fivep", "cds_fivep"}

\* a step that stores r.copy() for a constructed record r keeps r's core
\* fields, exons, cds_exons, attrs and keyword extras
C15_CopyStep ==
    LET r == gene["a"]
    IN  (r.kind = "Gene" /\ gene' = [gene EXCEPT !["b"] = Gene_copy(r)]) =>
            /\ \A f \in CoreFields \cup {"exons", "cds_exons"} :
                   gene'["b"][f] = r[f]
            /\ gene'["b"].attrs = r.attrs
            /\ gene'["b"].extras = r.extras
            /\ gene'["b"].aux_attrs = r.aux_attrs

\* C15: for every record r built with an attrs mapping and keyword extras,
\* r.copy() has the same core fields, the same exons and cds_exons, the
\* same attrs pairs and the same keyword extras as r.
C15_CopyPreservesRecord == [][C15_CopyStep]_vars

\* a step that stores r.modified(**overrides) leaves r alone and differs
\* from r in the overridden fields only
C16_ModifiedStep ==
    \A from \in GeneSlots, overrides \in OverrideChoices :
        (/\ gene[from].kind = "Gene"
         /\ gene' = [gene EXCEPT
                         !["b"] = Gene_modified(gene[from], overrides)]) =>
            \A f \in CoreFields \cup DerivedFields :
                gene'["b"][f] = IF f \in DOMAIN overrides THEN overrides[f]
                                ELSE gene[from][f]

\* C16: for every receiver r, a constructed record or the result of an
\* earlier modified() call, r.modified(**overrides) holds the override
\* values in the named fields and r's own value in every other core field
\* and in exons, cds_exons, length, cds_length, fivep and cds_fivep.
C16_ModifiedChangesNamedFieldsOnly == [][C16_ModifiedStep]_vars

\* C18: every record the constructor returns has
\* block_count == len(block_sizes) == len(block_starts), one exon per
\* declared block in declaration order, exon i being
\* (block_starts[i] + start, block_starts[i] + start + block_sizes[i]),
\* and every exon inside [start, end].
C18_BlockLayoutInvariant ==
    \A slot \in GeneSlots :
        LET g == gene[slot]
        IN  g.kind = "Gene" =>
                /\ g.block_count = Len(g.block_sizes)
                /\ g.block_count = Len(g.block_starts)
                /\ Len(g.exons) = g.block_count
                /\ \A i \in DOMAIN g.exons :
                       /\ g.exons[i][1] = g.block_starts[i] + g.start
                       /\ g.exons[i][2] = g.exons[i][1] + g.block_sizes[i]
                       /\ g.start <= g.exons[i][1]
                       /\ g.exons[i][2] <= g.end

\* the text of the first k written records
WrittenText(k) ==
    Flatten([i \in 1..k |-> fasta_string(written[i].seq, written[i].wrap)])

\* C19: after r1..rn were written (any wrap >= 1), the k-th parse call,
\* k <= n, returns rk's name, sequence and description and leaves the cursor
\* at the end of rk's text, which is the '>' of r(k+1) when k < n; the
\* (n+1)-th call raises StopIteration.
C19_WriteThenParseRoundTrip ==
    \A k \in DOMAIN parsed :
        IF k <= Len(written)
        THEN /\ parsed[k].kind = "Seq"
             /\ parsed[k].name = written[k].seq.name
             /\ parsed[k].sequence = written[k].seq.sequence
             /\ parsed[k].description = written[k].seq.description
             /\ parsed[k].pos = Len(WrittenText(k))
             /\ k < Len(written) =>
                    read1(disk["f1"].fasta, parsed[k].pos) = ">"
        ELSE parsed[k].kind = "StopIteration"

\* C19 witness: two records written, the first with a description and a
\* sequence wrapped over several lines, and three parse calls made
C19_Witness ==
    /\ Len(written) = 2
    /\ Len(parsed) = 3
    /\ written[1].seq.description # <<>>
    /\ Len(written[1].seq.sequence) > written[1].wrap
    /\ written[2].seq.name # written[1].seq.name
    /\ parsed[3].kind = "StopIteration"

\* C17: with the get_sequence calls of several threads interleaved in any
\* order, the index stays the one that was loaded, calls that hold a file
\* object hold different ones, the open file objects are exactly those of
\* the calls still inside their with block (a call that has returned or
\* raised has closed its own), and every finished call has the outcome
\* of that call run alone.
C17_CallsShareNoState ==
    /\ indexed = IndexedFasta_init(disk, "f1")
    /\ \A t, u \in Threads :
           (/\ t # u
            /\ calls[t].pc \in Holding
            /\ calls[u].pc \in Holding) => calls[t].f # calls[u].f
    /\ \A f \in HandleIds :
           handles[f].open <=>
               \E t \in Threads : calls[t].pc \in Holding /\ calls[t].f = f
    /\ \A t \in Threads :
           calls[t].pc = "done" =>
               calls[t].out = get_sequence(disk, indexed, calls[t].name)

\* C17 witness: one call has parsed its record and is about to close its
\* file while the call of the other thread, for another name, is in the
\* middle of its backward scan on a file object of its own
C17_Witness ==
    /\ calls["t1"].pc = "exit"
    /\ calls["t1"].out.kind = "Seq"
    /\ calls["t2"].pc = "read"
    /\ calls["t2"].offset < calls["t2"].stored
    /\ calls["t2"].name # calls["t1"].name
    /\ handles[calls["t1"].f].pos # handles[calls["t2"].f].pos

\* the position of the last '>' at or before `offset`, -1 when there is none
NearestMarker(file, offset) ==
    LET markers == {p \in 0..offset : read1(file, p) = ">"}
    IN  IF markers = {} THEN -1
        ELSE CHOOSE p \in markers : \A q \in markers : q <= p

\* where the scan of the running call stands
ScanInvariant ==
    LET c == calls["t1"]
        file == disk["f1"].fasta
    IN  /\ c.pc \in {"seek", "read"} =>
               /\ c.offset <= c.stored
               /\ c.offset >= -1
               /\ \A p \in (c.offset + 1)..c.stored : read1(file, p) # ">"
        /\ c.pc \in {"seek_header", "parse"} =>
               /\ c.offset >= 0
               /\ c.offset = NearestMarker(file, c.stored)
        /\ c.pc = "parse" => handles[c.f].pos = c.offset
        /\ (c.pc = "exit" /\ c.out.kind = "ValueError") =>
               NearestMarker(file, c.stored) = -1

\* a read that does not find the marker moves the scan one position back
ScanStep ==
    (calls["t1"].pc = "read" /\ calls'["t1"].pc = "seek") =>
        calls'["t1"].offset = calls["t1"].offset - 1

\* C20: for any stored offset and file content, a started get_sequence
\* call finishes; its scan starts at the stored offset, moves back one
\* position per step and ends on the nearest '>' at or before the stored
\* offset, where parsing starts, or with an error when there is none.
C20_GetSequenceTerminates ==
    /\ []ScanInvariant
    /\ [][ScanStep]_vars
    /\ (calls["t1"].pc = "open") ~> (calls["t1"].pc = "done")

\* C20 witness: the scan went back from a stored offset past the start of
\* a file with no '>' before it and the call raises
C20_Witness ==
    /\ calls["t1"].pc = "exit"
    /\ calls["t1"].out.kind = "ValueError"
    /\ calls["t1"].stored >= 1
    /\ calls["t1"].offset = -1
    /\ \E p \in DOMAIN disk["f1"].fasta : disk["f1"].fasta[p] = ">"

====
